---- MODULE Spec2Model ----
(***************************************************************************)
(* A model of anyway/infographics_utils.py: the widget serialisation, the  *)
(* registry-driven widget generator, the request-params builder, the two   *)
(* entry points, the statistic queries and their regroupings, and the      *)
(* cache of the national vehicle-type percentages.                         *)
(*                                                                         *)
(* Python values are modelled as follows.                                 *)
(*   None / a value        a sequence of length 0 / 1 (None, Some(x))      *)
(*   dict                  a set of <<key, value>> pairs, one per key       *)
(*   list                  a sequence                                      *)
(*   str                   a TLA+ string; a str that the code parses is a  *)
(*                         sequence of one-character strings               *)
(*   a call's outcome      a record with field exc: "" when the call       *)
(*                         returned, the exception's class when it raised  *)
(* Hebrew string literals of the source are written in Latin letters.      *)
(***************************************************************************)
EXTENDS Integers, Sequences, FiniteSets, TLC

VARIABLES
    markers,    \* rows of the accident table (AccidentMarkerView) in the data store
    lru,        \* the cache of percentage_accidents_by_car_type_national_data_cache
    requested,  \* history: the keys asked of that cache, with their last results
    call        \* the last call made to the module: operation, arguments, outcome

vars == <<markers, lru, requested, call>>

(***************************************************************************)
(* Bounds of the model.                                                    *)
(***************************************************************************)
MaxRows == 2        \* rows the accident table may hold
MaxRegistry == 3    \* descriptors in a registry passed to generate_widgets
MaxRecords == 3     \* raw {accident_type, count} records of one query result
MaxAccidents == 5   \* rows the accident table may hold for the road statistics
MaxInvolved == 5    \* rows the involved-party table holds
MaxWindows == 66    \* distinct time windows asked of the national-data cache

(***************************************************************************)
(* Python helpers.                                                         *)
(***************************************************************************)
None == <<>>
Some(x) == <<x>>

\* d[k] = v on a dict
DictSet(d, k, v) == {p \in d : p[1] # k} \cup {<<k, v>>}
DictGet(d, k) == (CHOOSE p \in d : p[1] = k)[2]

\* bool(x) of an Optional[dict]: None and {} are falsy
Truthy(o) == o # None /\ o[1] # {}

\* a value that is a str or a tuple, as the resolution of a context is
PyStr(s) == [t |-> "str", v |-> s]
PyTuple(items) == [t |-> "tuple", v |-> items]

(***************************************************************************)
(* WidgetId (enum): value = [rank, name].                                  *)
(***************************************************************************)
WidgetId ==
    [ accident_count_by_severity |-> <<1, "accident_count_by_severity">>,
      most_severe_accidents_table |-> <<2, "most_severe_accidents_table">>,
      most_severe_accidents |-> <<3, "most_severe_accidents">>,
      street_view |-> <<4, "street_view">>,
      head_on_collisions_comparison |-> <<5, "head_on_collisions_comparison">>,
      accident_count_by_accident_type |-> <<6, "accident_count_by_accident_type">>,
      accidents_heat_map |-> <<7, "accidents_heat_map">>,
      accident_count_by_accident_year |-> <<8, "accident_count_by_accident_year">>,
      injured_count_by_accident_year |-> <<9, "injured_count_by_accident_year">>,
      accident_count_by_day_night |-> <<10, "accident_count_by_day_night">>,
      accidents_count_by_hour |-> <<11, "accidents_count_by_hour">>,
      accident_count_by_road_light |-> <<12, "accident_count_by_road_light">>,
      top_road_segments_accidents_per_km |-> <<13, "top_road_segments_accidents_per_km">>,
      injured_count_per_age_group |-> <<14, "injured_count_per_age_group">>,
      vision_zero |-> <<15, "vision_zero">>,
      accident_count_by_driver_type |-> <<16, "accident_count_by_driver_type">>,
      accident_count_by_car_type |-> <<17, "accident_count_by_car_type">>,
      injured_accidents_with_pedestrians |-> <<18, "injured_accidents_with_pedestrians">>,
      accident_severity_by_cross_location |-> <<19, "accident_severity_by_cross_location">>,
      motorcycle_accidents_vs_all_accidents |-> <<20, "motorcycle_accidents_vs_all_accidents">>,
      accidents_count_pedestrians_per_vehicle_street_vs_all |-> <<21, "accidents_count_pedestrians_per_vehicle_street_vs_all">> ]

WidgetId_get_rank(id) == WidgetId[id][1]
WidgetId_get_name(id) == WidgetId[id][2]

(***************************************************************************)
(* Widget.serialize                                                        *)
(***************************************************************************)
SerializeAlwaysText(w) ==
    [ name |-> w.name,
      data |-> [items |-> w.items, text |-> w.text],
      meta |-> DictSet(IF Truthy(w.meta) THEN w.meta[1] ELSE {}, "rank", w.rank) ]

Serialize(w) ==
    [ name |-> w.name,
      data |-> IF Truthy(w.text)
               THEN [items |-> w.items, text |-> w.text]
               ELSE [items |-> w.items],
      meta |-> DictSet(IF Truthy(w.meta) THEN w.meta[1] ELSE {}, "rank", w.rank) ]

\* Widgets handed to serialize: every field assigned
Widgets ==
    [ name  : {"accident_count_by_severity", "street_view"},
      rank  : {-1, 4},
      items : {<<>>, <<5>>},
      text  : {None, Some({}), Some({<<"title", "t">>})},
      meta  : {None, Some({}), Some({<<"extra", 7>>}), Some({<<"rank", 9>>, <<"extra", 7>>})} ]

(***************************************************************************)
(* WidgetDef and the registry.  A descriptor holds its WidgetId member, its *)
(* generator, its optional inclusion predicate ("None" when absent) and its *)
(* cache eligibility.                                                      *)
(***************************************************************************)
WidgetDef(widget_id, generate_items, is_included_in_response, is_included_in_cache) ==
    [ widget_id               |-> widget_id,
      generate_items          |-> generate_items,
      is_included_in_response |-> is_included_in_response,
      is_included_in_cache    |-> is_included_in_cache ]

WidgetDef_get_name(wd) == WidgetId_get_name(wd.widget_id)
WidgetDef_get_rank(wd) == WidgetId_get_rank(wd.widget_id)

\* a registry whose first descriptor is not cache-eligible
WidgetsDefWithUncached ==
    << WidgetDef("accident_count_by_severity", "get_accident_count_by_severity", "None", FALSE),
       WidgetDef("most_severe_accidents_table", "get_most_severe_accidents_table", "None", TRUE) >>

\* the registry of the module: both descriptors take the defaults
\* is_included_in_response=None, is_included_in_cache=True
get_widgets_def ==
    << WidgetDef("accident_count_by_severity", "get_accident_count_by_severity", "None", TRUE),
       WidgetDef("most_severe_accidents_table", "get_most_severe_accidents_table", "None", TRUE) >>

\* A generator's outcome: the Widget it returns, or the exception it raises.
Returned(w) == [exc |-> "", widget |-> Some(w)]
Raised(e) == [exc |-> e, widget |-> None]

\* The two generators of the module.  Widget is a dataclass whose only __init__
\* parameter is request_params (every other field is init=False), so the
\* constructor calls Widget(widget_id=..., items=...) and Widget(id, items=...,
\* text=...) raise TypeError; with request_params None the attribute read that
\* comes first raises AttributeError.
get_accident_count_by_severity(data, widget_def) ==
    IF data = None THEN Raised("AttributeError") ELSE Raised("TypeError")

get_most_severe_accidents_table(request_params, widget_def) ==
    IF request_params = None THEN Raised("AttributeError") ELSE Raised("TypeError")

\* item.generate_items(request_params, item).  Besides the module's own two
\* generators a registry may hold any callable: one returning a Widget with
\* items, one returning a Widget with empty items, one that raises.
generate_items(item, request_params) ==
    CASE item.generate_items = "get_accident_count_by_severity" ->
            get_accident_count_by_severity(request_params, item)
      [] item.generate_items = "get_most_severe_accidents_table" ->
            get_most_severe_accidents_table(request_params, item)
      [] item.generate_items = "gen_items" ->
            Returned([name |-> WidgetDef_get_name(item), rank |-> WidgetDef_get_rank(item),
                      items |-> <<5>>, text |-> None, meta |-> None])
      [] item.generate_items = "gen_empty" ->
            Returned([name |-> WidgetDef_get_name(item), rank |-> WidgetDef_get_rank(item),
                      items |-> <<>>, text |-> None, meta |-> None])
      [] item.generate_items = "gen_raise" -> Raised("RuntimeError")

\* item.is_included_in_response(item_widget) for a predicate that is present
CallPredicate(pred, item_widget) ==
    CASE pred = "never" -> FALSE
      [] pred = "has_items" -> item_widget.items # <<>>

\* line 676: filter(lambda wd: wd.is_included_in_cache == to_cache, widgets_def)
SelectAll(widgets_def, to_cache) == widgets_def

SelectByCache(widgets_def, to_cache) ==
    SelectSeq(widgets_def, LAMBDA wd : wd.is_included_in_cache = to_cache)

\* line 679: item.is_included_in_response and item.is_included_in_response(item_widget)
\* (a predicate that is None is falsy, so the conjunction is falsy)
IncludeUnlessNone(item, item_widget) == item.is_included_in_response # "None"

IncludeInResponse(item, item_widget) ==
    /\ item.is_included_in_response # "None"
    /\ CallPredicate(item.is_included_in_response, item_widget)

\* line 680: res.append(item_widget.serialize())
AppendSerialized(res, item_widget) == Append(res, Serialize(item_widget))

\* lines 676-680: the loop; calls records the generators invoked, in order
RECURSIVE generate_widgets_loop(_, _, _, _)
generate_widgets_loop(request_params, items, res, calls) ==
    IF items = <<>>
    THEN [exc |-> "", res |-> res, calls |-> calls]
    ELSE LET item == Head(items)
             g == generate_items(item, request_params)
             called == Append(calls, item.widget_id)
         IN  IF g.exc # ""
             THEN [exc |-> g.exc, res |-> <<>>, calls |-> called]
             ELSE IF IncludeInResponse(item, g.widget[1])
                  THEN generate_widgets_loop(request_params, Tail(items),
                                             AppendSerialized(res, g.widget[1]), called)
                  ELSE generate_widgets_loop(request_params, Tail(items), res, called)

generate_widgets(request_params, widgets_def, to_cache) ==
    generate_widgets_loop(request_params, SelectByCache(widgets_def, to_cache), <<>>, <<>>)

\* Registries handed to generate_widgets hold up to MaxRegistry descriptors, the
\* i-th one for the i-th member of WidgetId (members are unique).
WidgetIdOrder ==
    <<"accident_count_by_severity", "most_severe_accidents_table",
      "most_severe_accidents", "street_view">>

DescriptorShapes ==
    [ generate_items          : {"gen_items", "gen_empty", "gen_raise"},
      is_included_in_response : {"None", "never", "has_items"},
      is_included_in_cache    : BOOLEAN ]

RegistryLengths == 0 .. (IF MaxRegistry < Len(WidgetIdOrder) THEN MaxRegistry ELSE Len(WidgetIdOrder))

\* the registry whose i-th descriptor has the i-th shape
Registry(shapes) ==
    [i \in 1 .. Len(shapes) |->
        WidgetDef(WidgetIdOrder[i], shapes[i].generate_items,
                  shapes[i].is_included_in_response, shapes[i].is_included_in_cache)]

(***************************************************************************)
(* The data store.  NULL columns hold Null; column values are strings.     *)
(***************************************************************************)
Null == "NULL"

\* truth value of a nullable str column: None and "" are falsy
Falsy(v) == v = Null \/ v = ""

\* the NewsFlash table: events 1-3 resolve to a location, 4 has every field
\* of its resolution NULL, 5 and 6 have no resolution, 7 has one that
\* resolution_dict does not know; no row has id 8
NewsFlash ==
    { [id |-> 1, resolution |-> "city", yishuv_name |-> "tel_aviv",
       street1_hebrew |-> Null, road1 |-> Null, road_segment_name |-> Null,
       location |-> "loc1", lon |-> "34.8", lat |-> "32.1"],
      [id |-> 2, resolution |-> "interurban_road", yishuv_name |-> Null,
       street1_hebrew |-> Null, road1 |-> "90", road_segment_name |-> "seg_a",
       location |-> "loc2", lon |-> "35.4", lat |-> "31.5"],
      [id |-> 3, resolution |-> "street", yishuv_name |-> "haifa",
       street1_hebrew |-> Null, road1 |-> Null, road_segment_name |-> Null,
       location |-> "loc3", lon |-> Null, lat |-> Null],
      [id |-> 4, resolution |-> "city", yishuv_name |-> Null,
       street1_hebrew |-> "herzl", road1 |-> "4", road_segment_name |-> Null,
       location |-> "loc4", lon |-> "34.9", lat |-> "32.0"],
      [id |-> 5, resolution |-> Null, yishuv_name |-> "tel_aviv",
       street1_hebrew |-> Null, road1 |-> Null, road_segment_name |-> Null,
       location |-> "loc5", lon |-> "34.8", lat |-> "32.1"],
      [id |-> 6, resolution |-> "", yishuv_name |-> "tel_aviv",
       street1_hebrew |-> Null, road1 |-> Null, road_segment_name |-> Null,
       location |-> "loc6", lon |-> "34.8", lat |-> "32.1"],
      [id |-> 7, resolution |-> "planet", yishuv_name |-> "tel_aviv",
       street1_hebrew |-> Null, road1 |-> "90", road_segment_name |-> "seg_a",
       location |-> "loc7", lon |-> "34.8", lat |-> "32.1"] }

NewsFlashIds == 1 .. 8

\* anyway.parsers.resolution_dict: the location fields of each resolution
resolution_dict ==
    [ city            |-> <<"yishuv_name">>,
      street          |-> <<"yishuv_name", "street1_hebrew">>,
      interurban_road |-> <<"road1", "road_segment_name">> ]

\* rows the accident table may hold; accident_timestamp is <<year, month, day, hour>>
AllRows ==
    << [id |-> 1, accident_timestamp |-> <<2019, 12, 31, 23>>, yishuv_name |-> "tel_aviv",
        street1_hebrew |-> Null, road1 |-> Null, road_segment_name |-> Null,
        provider_code |-> 1, accident_severity |-> 3,
        longitude |-> "34.8", latitude |-> "32.1"],
       [id |-> 2, accident_timestamp |-> <<2020, 6, 15, 10>>, yishuv_name |-> "haifa",
        street1_hebrew |-> Null, road1 |-> Null, road_segment_name |-> Null,
        provider_code |-> 3, accident_severity |-> 1,
        longitude |-> "35.0", latitude |-> "32.8"],
       [id |-> 3, accident_timestamp |-> <<2021, 1, 1, 0>>, yishuv_name |-> Null,
        street1_hebrew |-> Null, road1 |-> "90", road_segment_name |-> "seg_a",
        provider_code |-> 2, accident_severity |-> 2,
        longitude |-> "35.4", latitude |-> "31.5"],
       [id |-> 4, accident_timestamp |-> <<2020, 6, 15, 22>>, yishuv_name |-> "tel_aviv",
        street1_hebrew |-> Null, road1 |-> Null, road_segment_name |-> Null,
        provider_code |-> 1, accident_severity |-> 3,
        longitude |-> "34.8", latitude |-> "32.1"] >>

Tables ==
    SUBSET {AllRows[i] : i \in {j \in 1 .. Len(AllRows) : j <= MaxRows}}

\* db.session.query(NewsFlash).filter(NewsFlash.id == news_flash_id).first()
QueryNewsFlash(news_flash_id) ==
    IF \E nf \in NewsFlash : nf.id = news_flash_id
    THEN Some(CHOOSE nf \in NewsFlash : nf.id = news_flash_id)
    ELSE None

\* timestamps and dates in calendar order
Before(a, b) ==
    \E i \in 1 .. Len(a) : a[i] < b[i] /\ \A j \in 1 .. (i - 1) : a[j] = b[j]

\* pandas Timestamp.to_pydatetime().date(): the time of day is dropped
ToDate(ts) == <<ts[1], ts[2], ts[3]>>

(***************************************************************************)
(* extract_news_flash_location                                             *)
(***************************************************************************)
RECURSIVE CollectFields(_, _, _)
CollectFields(obj, fields, data) ==
    IF fields = <<>> THEN data
    ELSE LET curr_field == obj[Head(fields)]
         IN  CollectFields(obj, Tail(fields),
                           IF curr_field # Null
                           THEN DictSet(data, Head(fields), curr_field)
                           ELSE data)

extract_news_flash_location(news_flash_id) ==
    LET q == QueryNewsFlash(news_flash_id)
    IN  IF q = None THEN None
        ELSE LET news_flash_obj == q[1]
                 resolution == IF ~Falsy(news_flash_obj.resolution)
                               THEN news_flash_obj.resolution ELSE Null
             IN  IF Falsy(resolution) \/ resolution \notin DOMAIN resolution_dict
                 THEN None
                 ELSE Some([ name |-> "location",
                             data |-> CollectFields(news_flash_obj, resolution_dict[resolution],
                                                    {<<"resolution", resolution>>}),
                             gps  |-> {<<"lon", news_flash_obj.lon>>,
                                       <<"lat", news_flash_obj.lat>>} ])

(***************************************************************************)
(* get_news_flash_location_text: the text is the sequence of the parts the *)
(* code concatenates.                                                      *)
(***************************************************************************)
get_news_flash_location_text(news_flash_id) ==
    LET nf == QueryNewsFlash(news_flash_id)[1]
        resolution == IF ~Falsy(nf.resolution) THEN nf.resolution ELSE ""
        yishuv_name == IF ~Falsy(nf.yishuv_name) THEN nf.yishuv_name ELSE ""
        road1 == IF ~Falsy(nf.road1) THEN nf.road1 ELSE ""
        street1_hebrew == IF ~Falsy(nf.street1_hebrew) THEN nf.street1_hebrew ELSE ""
        road_segment_name == IF ~Falsy(nf.road_segment_name) THEN nf.road_segment_name ELSE ""
    IN  IF resolution = "interurban_road" /\ road1 # "" /\ road_segment_name # ""
        THEN <<"road ", road1, " in segment ", road_segment_name>>
        ELSE IF resolution = "city" /\ yishuv_name = "" THEN <<nf.location>>
        ELSE IF resolution = "city" /\ yishuv_name # "" THEN <<nf.yishuv_name>>
        ELSE IF resolution = "street" /\ yishuv_name # "" /\ street1_hebrew # ""
        THEN <<" street ", street1_hebrew, " in ", yishuv_name>>
        ELSE <<nf.location>>

(***************************************************************************)
(* get_latest_accident_date: max(accident_timestamp) over the whole table; *)
(* the filters it builds are not applied to the query.  None on an empty   *)
(* table.                                                                  *)
(***************************************************************************)
MaxTimestamp(rows) ==
    IF rows = {} THEN None
    ELSE Some(CHOOSE t \in {r.accident_timestamp : r \in rows} :
                 \A r \in rows : ~Before(t, r.accident_timestamp))

get_latest_accident_date(table_obj, filters) == MaxTimestamp(table_obj)

\* rows matching the equality filters of a location_info dict
MatchesFilters(row, filters) ==
    \A p \in filters : p[1] \in DOMAIN row => row[p[1]] = p[2]

LatestAtLocation(table_obj, location_info) ==
    MaxTimestamp({r \in table_obj : MatchesFilters(r, location_info)})

\* line 706: get_latest_accident_date(table_obj=AccidentMarkerView, filters=None)
LatestForRequest(table_obj, location_info) == get_latest_accident_date(table_obj, None)

(***************************************************************************)
(* int(number_of_years_ago).  An argument is an int, a str (a sequence of  *)
(* characters) or None.                                                    *)
(***************************************************************************)
IntVal(n) == [t |-> "int", n |-> n, s |-> <<>>]
StrVal(s) == [t |-> "str", n |-> 0, s |-> s]
NoneVal == [t |-> "NoneType", n |-> 0, s |-> <<>>]

Digits == {"0", "1", "2", "3", "4", "5", "6", "7", "8", "9"}
DigitValue(c) ==
    CASE c = "0" -> 0 [] c = "1" -> 1 [] c = "2" -> 2 [] c = "3" -> 3 [] c = "4" -> 4
      [] c = "5" -> 5 [] c = "6" -> 6 [] c = "7" -> 7 [] c = "8" -> 8 [] c = "9" -> 9

RECURSIVE Strip(_)
Strip(s) ==
    IF s = <<>> THEN s
    ELSE IF Head(s) = " " THEN Strip(Tail(s))
    ELSE IF s[Len(s)] = " " THEN Strip(SubSeq(s, 1, Len(s) - 1))
    ELSE s

RECURSIVE DecimalValue(_, _)
DecimalValue(s, acc) ==
    IF s = <<>> THEN acc ELSE DecimalValue(Tail(s), 10 * acc + DigitValue(Head(s)))

Converted(n) == [exc |-> "", n |-> n]
ConversionError(e) == [exc |-> e, n |-> 0]

\* int(str): surrounding blanks stripped, an optional sign, then digits only
ParseInt(chars) ==
    LET s == Strip(chars)
        signed == s # <<>> /\ Head(s) \in {"+", "-"}
        body == IF signed THEN Tail(s) ELSE s
    IN  IF body = <<>> \/ \E i \in 1 .. Len(body) : body[i] \notin Digits
        THEN ConversionError("ValueError")
        ELSE IF signed /\ Head(s) = "-"
             THEN Converted(0 - DecimalValue(body, 0))
             ELSE Converted(DecimalValue(body, 0))

PyInt(v) ==
    CASE v.t = "int" -> Converted(v.n)
      [] v.t = "str" -> ParseInt(v.s)
      [] v.t = "NoneType" -> ConversionError("TypeError")

YearsAgoInputs ==
    { IntVal(-1), IntVal(0), IntVal(1), IntVal(3), IntVal(100), IntVal(101),
      StrVal(<<"3">>), StrVal(<<" ", "2">>), StrVal(<<"1", "0", "0">>),
      StrVal(<<"1", "0", "1">>), StrVal(<<"-", "1">>), StrVal(<<"a", "b">>),
      StrVal(<<"3", ".", "5">>), StrVal(<<>>), NoneVal }

(***************************************************************************)
(* RequestParams and get_request_params                                    *)
(***************************************************************************)
\* __init__: `self.resolution = resolution,` stores a 1-tuple
RequestParams(news_flash_id, location_text, location_info, resolution, gps, start_time, end_time) ==
    [ news_flash_is |-> news_flash_id,
      location_text |-> location_text,
      location_info |-> location_info,
      resolution    |-> PyTuple(<<PyStr(resolution)>>),
      gps           |-> gps,
      start_time    |-> start_time,
      end_time      |-> end_time ]

\* line 689: the accepted range of number_of_years_ago
MinYearsAgo == 0
MaxYearsAgo == 100

OutOfRange(n) == n < MinYearsAgo \/ n > MaxYearsAgo

\* line 687: except ValueError
ConversionCaught(e) == e = "ValueError"

\* a window that starts on January 1 of the year `number_of_years_ago` before
\* the end year (no "+ 1")
StartTimeWithoutPlusOne(end_time, number_of_years_ago) == <<end_time[1] - number_of_years_ago, 1, 1>>

\* line 710: datetime.date(end_time.year + 1 - number_of_years_ago, 1, 1)
StartTime(end_time, number_of_years_ago) == <<end_time[1] + 1 - number_of_years_ago, 1, 1>>

\* the outcome of a call: returned val (None or Some), or raised exc;
\* queries lists the tables the call queried, in order
Outcome(exc, val, queries) == [exc |-> exc, val |-> val, queries |-> queries]

get_request_params(news_flash_id, years_ago, table) ==
    LET conv == PyInt(years_ago)
    IN  IF conv.exc # ""
        THEN IF ConversionCaught(conv.exc)
             THEN Outcome("", None, <<>>)
             ELSE Outcome(conv.exc, None, <<>>)
        ELSE IF OutOfRange(conv.n) THEN Outcome("", None, <<>>)
        ELSE LET extracted == extract_news_flash_location(news_flash_id)
             IN  IF extracted = None THEN Outcome("", None, <<"NewsFlash">>)
                 ELSE
    LET location_text == get_news_flash_location_text(news_flash_id)
        gps == extracted[1].gps
        resolution == DictGet(extracted[1].data, "resolution")
        location_info == {p \in extracted[1].data : p[1] # "resolution"}
        q2 == <<"NewsFlash", "NewsFlash">>
    IN  IF resolution = Null THEN Outcome("", None, q2)
        ELSE IF \A p \in location_info : p[2] = Null THEN Outcome("", None, q2)
        ELSE LET last_accident_date == LatestForRequest(table, location_info)
                 q3 == Append(q2, "AccidentMarkerView")
             IN  IF last_accident_date = None
                 THEN Outcome("AttributeError", None, q3)   \* None.to_pydatetime()
                 ELSE LET end_time == ToDate(last_accident_date[1])
                          start_time == StartTime(end_time, conv.n)
                      IN  IF start_time[1] < 1
                          THEN Outcome("ValueError", None, q3)  \* year out of range
                          ELSE Outcome("", Some(RequestParams(news_flash_id, location_text,
                                                   location_info, resolution, gps,
                                                   start_time, end_time)), q3)

(***************************************************************************)
(* create_infographics_data                                                *)
(***************************************************************************)
\* lines 724-737 and the first statement after them.  The attributes of
\* request_params are read (line 725) before the test for None (line 731).
\* Past line 737 the next statement builds a Widget with keyword arguments
\* its __init__ does not take, which raises TypeError.
create_infographics_data(news_flash_id, number_of_years_ago, table) ==
    LET rp == get_request_params(news_flash_id, number_of_years_ago, table)
    IN  IF rp.exc # "" THEN [exc |-> rp.exc, val |-> None]
        ELSE IF rp.val = None THEN [exc |-> "AttributeError", val |-> None]
        ELSE LET widgets == generate_widgets(rp.val, get_widgets_def, TRUE)
             IN  IF widgets.exc # "" THEN [exc |-> widgets.exc, val |-> None]
                 ELSE [exc |-> "TypeError", val |-> None]

(***************************************************************************)
(* get_infographics_data                                                   *)
(***************************************************************************)
\* what get_infographics_data_from_cache may do: raise, return None, or
\* return the list of cached widgets
CachedWidget == [kind |-> "widget", name |-> "accident_count_by_severity", elems |-> <<>>]

CacheOutcomes ==
    { [exc |-> "OperationalError", val |-> None, list |-> <<>>],
      [exc |-> "", val |-> None, list |-> <<>>],
      [exc |-> "", val |-> Some("list"), list |-> <<>>],
      [exc |-> "", val |-> Some("list"), list |-> <<CachedWidget>>] }

\* line 1113: except Exception
CatchesValueErrorOnly(e) == e = "ValueError"
Catches(e) == TRUE

EmptyDict == [kind |-> "dict", elems |-> <<>>]
ListOf(elems) == [kind |-> "list", elems |-> elems]

\* the body of the try block: its value, or the exception that leaves it
TryBody(cache, rp, widgets) ==
    IF cache.exc # "" THEN [exc |-> cache.exc, res |-> EmptyDict]
    ELSE IF rp.exc # "" THEN [exc |-> rp.exc, res |-> EmptyDict]
    ELSE IF widgets.exc # "" THEN [exc |-> widgets.exc, res |-> EmptyDict]
    ELSE IF cache.val = None THEN [exc |-> "AttributeError", res |-> EmptyDict]  \* None.append
    ELSE [exc |-> "",
          res |-> ListOf(Append(cache.list, [kind |-> "list", name |-> "", elems |-> widgets.res]))]

get_infographics_data(news_flash_id, years_ago, table, cache) ==
    LET rp == get_request_params(news_flash_id, years_ago, table)
        widgets == generate_widgets(rp.val, get_widgets_def, FALSE)
        body == TryBody(cache, rp, widgets)
    IN  IF body.exc = "" THEN [exc |-> "", val |-> body.res, rp |-> rp, widgets |-> widgets]
        ELSE IF Catches(body.exc)
             THEN [exc |-> "", val |-> EmptyDict, rp |-> rp, widgets |-> widgets]
             ELSE [exc |-> body.exc, val |-> EmptyDict, rp |-> rp, widgets |-> widgets]

(***************************************************************************)
(* get_accident_count_by_accident_type: the merge of the raw                *)
(* {accident_type, count} records that get_accidents_stats returned.  An   *)
(* accident type is a sequence of characters.                              *)
(***************************************************************************)
COLLISION == <<"c", "o">>

IsSubstring(pat, str) ==
    \E i \in 1 .. (Len(str) - Len(pat) + 1) : SubSeq(str, i, i + Len(pat) - 1) = pat

\* line 200: "collision" in item["accident_type"]
IsExactlyCollision(accident_type) == accident_type = COLLISION
IsCollision(accident_type) == IsSubstring(COLLISION, accident_type)

RECURSIVE MergeLoop(_, _)
MergeLoop(all_accident_type_count, merged) ==
    IF all_accident_type_count = <<>> THEN merged
    ELSE LET item == Head(all_accident_type_count)
         IN  MergeLoop(Tail(all_accident_type_count),
                       IF IsCollision(item.accident_type)
                       THEN [merged EXCEPT ![1].count = @ + item.count]
                       ELSE Append(merged, item))

get_accident_count_by_accident_type(all_accident_type_count) ==
    MergeLoop(all_accident_type_count, <<[accident_type |-> COLLISION, count |-> 0]>>)

AccidentTypes ==
    { <<"c", "o", "a">>, <<"x", "c", "o">>, <<"r", "e">>, <<"o", "c">> }

RawRecords == [accident_type : AccidentTypes, count : {1, 2, 5}]

(***************************************************************************)
(* filter_and_group_injured_count_per_age_group.  An age group is a        *)
(* sequence of characters; a defaultdict(int) is the sequence of its       *)
(* {key, count} entries in insertion order.                                *)
(***************************************************************************)
\* line 323: range_dict, in insertion order
range_dict == << <<0, 14>>, <<15, 24>>, <<25, 64>>, <<65, 200>> >>

\* line 331: re.match("([0-9]{2})\-([0-9]{2})", age_range), a match of a prefix
MatchesRange(age_range) ==
    /\ Len(age_range) >= 5
    /\ age_range[1] \in Digits /\ age_range[2] \in Digits
    /\ age_range[3] = "-"
    /\ age_range[4] \in Digits /\ age_range[5] \in Digits

\* line 339: re.match("([0-9]{2})\+", age_range)
MatchesOpenRange(age_range) ==
    /\ Len(age_range) >= 3
    /\ age_range[1] \in Digits /\ age_range[2] \in Digits
    /\ age_range[3] = "+"

\* lines 348-349: int() of a two-digit group that starts at position i
TwoDigits(age_range, i) == 10 * DigitValue(age_range[i]) + DigitValue(age_range[i + 1])

DigitChar(n) == CHOOSE c \in Digits : DigitValue(c) = n

RECURSIVE Decimal(_)
Decimal(n) == IF n < 10 THEN <<DigitChar(n)>> ELSE Append(Decimal(n \div 10), DigitChar(n % 10))

\* the format specification :02
Format02(n) == IF n < 10 THEN <<"0">> \o Decimal(n) ELSE Decimal(n)

\* line 356: f"{item_min_range:02}-{item_max_range:02}"
string_age_range(item) == Format02(item[1]) \o <<"-">> \o Format02(item[2])

UNKNOWN == <<"u", "n", "k", "n", "o", "w", "n">>
SIXTY_FIVE_PLUS == <<"6", "5", "+">>

HasKey(d, key) == \E i \in 1 .. Len(d) : d[i].age_group = key

\* d[key] of a defaultdict(int): a missing key is inserted with 0
DefaultGet(d, key) ==
    IF HasKey(d, key) THEN d ELSE Append(d, [age_group |-> key, count |-> 0])

ValueOf(d, key) == d[CHOOSE i \in 1 .. Len(d) : d[i].age_group = key].count

\* d[key] = value
SetItem(d, key, value) ==
    IF HasKey(d, key)
    THEN [i \in 1 .. Len(d) |-> IF d[i].age_group = key THEN [d[i] EXCEPT !.count = value] ELSE d[i]]
    ELSE Append(d, [age_group |-> key, count |-> value])

\* d[key] += count
AddCount(d, key, count) ==
    LET read == DefaultGet(d, key) IN SetItem(read, key, ValueOf(read, key) + count)

\* del d[key]
DelItem(d, key) ==
    LET Keep(e) == e.age_group # key IN SelectSeq(d, Keep)

\* lines 350-358: the first range of range_dict that holds both ages; 0 when
\* the loop ends without a break
FirstBucket(min_age, max_age) ==
    LET fits == {i \in 1 .. Len(range_dict) :
                    /\ range_dict[i][1] <= min_age /\ min_age <= range_dict[i][2]
                    /\ range_dict[i][1] <= max_age /\ max_age <= range_dict[i][2]}
    IN  IF fits = {} THEN 0 ELSE CHOOSE i \in fits : \A j \in fits : i <= j

\* lines 326-358: one iteration of the loop over data_of_ages
GroupOne(d, age_range_and_count) ==
    LET age_range == age_range_and_count.age_group
        count == age_range_and_count.count
        parsed == MatchesRange(age_range) \/ MatchesOpenRange(age_range)
        min_age == TwoDigits(age_range, 1)
        max_age == IF MatchesRange(age_range) THEN TwoDigits(age_range, 4) ELSE range_dict[4][2]
    IN  IF ~parsed THEN AddCount(d, UNKNOWN, count)
        ELSE IF FirstBucket(min_age, max_age) = 0 THEN d
        ELSE AddCount(d, string_age_range(range_dict[FirstBucket(min_age, max_age)]), count)

RECURSIVE GroupLoop(_, _)
GroupLoop(data_of_ages, d) ==
    IF data_of_ages = <<>> THEN d
    ELSE GroupLoop(Tail(data_of_ages), GroupOne(d, Head(data_of_ages)))

filter_and_group_injured_count_per_age_group(data_of_ages) ==
    LET grouped == GroupLoop(data_of_ages, <<>>)
        read == DefaultGet(grouped, string_age_range(range_dict[4]))       \* line 361, right side
        renamed == SetItem(read, SIXTY_FIVE_PLUS,
                           ValueOf(read, string_age_range(range_dict[4])))  \* line 361
    IN  DelItem(renamed, string_age_range(range_dict[4]))                   \* line 362

\* age groups of the records: five-year ranges, open ranges, a ten-year
\* range and a string that is not a range
AgeGroups ==
    { <<"0", "0", "-", "0", "4">>, <<"2", "0", "-", "2", "4">>, <<"6", "5", "-", "6", "9">>,
      <<"8", "5", "+">>, <<"1", "0", "-", "1", "9">>, <<"?">> }

AgeRecords == [age_group : AgeGroups, count : {1, 2}]

(***************************************************************************)
(* The statistic queries.  A table is a set of rows; the value of a dict   *)
(* key that the code sets to a list (provider_code, injury_severity) is a  *)
(* sequence, the value of every other key is a scalar.                     *)
(***************************************************************************)
\* anyway.backend_constants.BE_CONST: the two CBS provider codes
CBS_ACCIDENT_TYPE_1_CODE == 1
CBS_ACCIDENT_TYPE_3_CODE == 3

\* a date compared with a timestamp column is the timestamp of its midnight
AtMidnight(date) == <<date[1], date[2], date[3], 0>>

ListValued == {"provider_code", "injury_severity"}

\* lines 181-184: the values a row's column may have under one filter
FilterValues(field_name, value) ==
    IF field_name \in ListValued THEN {value[i] : i \in 1 .. Len(value)} ELSE {value}

\* get_query: the rows of table_obj in the time window that pass every
\* filter; start_time, end_time and filters are None or Some(value)
get_query(table_obj, filters, start_time, end_time) ==
    { row \in table_obj :
        /\ start_time # None => ~Before(row.accident_timestamp, AtMidnight(start_time[1]))
        /\ end_time # None => ~Before(AtMidnight(end_time[1]), row.accident_timestamp)
        /\ (filters # None /\ filters[1] # {}) =>
              \A p \in filters[1] : row[p[1]] \in FilterValues(p[1], p[2]) }

(***************************************************************************)
(* get_top_road_segments_accidents_per_km                                  *)
(***************************************************************************)
\* line 208: the default of limit
DefaultLimit == 5

\* the table RoadSegments
RoadSegments ==
    { [road |-> "90", segment |-> 1, from_km |-> 0, to_km |-> 2],
      [road |-> "90", segment |-> 2, from_km |-> 2, to_km |-> 3],
      [road |-> "90", segment |-> 3, from_km |-> 3, to_km |-> 5],
      [road |-> "4", segment |-> 1, from_km |-> 0, to_km |-> 1] }

\* lines 222-228: cast(count / length, Numeric(10, 4)), in ten-thousandths
Numeric4(count, length) == (2 * count * 10000 + length) \div (2 * length)

\* lines 230-232: the join of the accident rows with RoadSegments, on the
\* road of location_info; line 233 filters on a Python constant and removes
\* no row
JoinedRows(rows, road1) ==
    { j \in rows \X RoadSegments :
        /\ j[1].road1 = j[2].road
        /\ j[1].road_segment_number = j[2].segment
        /\ j[1].road1 = road1 }

\* line 234: the groups; lines 219-228: the columns of a group's record.
\* count(road_segment_name) counts the rows whose name is not NULL
GroupKeys(joined) ==
    { <<j[1].road_segment_name, j[2].from_km, j[2].to_km>> : j \in joined }

GroupRecord(joined, key) ==
    LET total == Cardinality({ j \in joined :
                                 /\ <<j[1].road_segment_name, j[2].from_km, j[2].to_km>> = key
                                 /\ j[1].road_segment_name # Null })
    IN  [ road_segment_name |-> key[1],
          total_accidents   |-> total,
          segment_length    |-> key[3] - key[2],
          accidents_per_km  |-> Numeric4(total, key[3] - key[2]) ]

\* line 235: order_by(desc("accidents_per_km")): a comes no later than b
AscendingOrder(a, b) == a <= b
DescendingOrder(a, b) == a >= b

\* line 236: the number of rows of n that limit(limit) lets through
Limited(n, limit) == IF n < limit THEN n ELSE limit

\* lines 235-236: every order the data store may give the groups in, rows
\* of equal ratio in any order, cut at limit
OrderedGroups(joined, limit) ==
    LET keys == GroupKeys(joined)
        Ratio(key) == GroupRecord(joined, key).accidents_per_km
    IN  { ord \in [1 .. Limited(Cardinality(keys), limit) -> keys] :
            /\ \A i, j \in DOMAIN ord : i < j =>
                  ord[i] # ord[j] /\ DescendingOrder(Ratio(ord[i]), Ratio(ord[j]))
            /\ \A key \in keys \ {ord[i] : i \in DOMAIN ord} :
                  \A i \in DOMAIN ord : DescendingOrder(Ratio(ord[i]), Ratio(key)) }

\* the outcomes the call may have: it raises, returns {} or returns the
\* list of records; counted is the set of accident rows behind the records
get_top_road_segments_accidents_per_km(resolution, location_info, table, start_time, end_time, limit) ==
    IF resolution # PyStr("interurban_road")
    THEN { [exc |-> "", val |-> EmptyDict, counted |-> {}] }
    ELSE IF ~\E p \in location_info : p[1] = "road1"     \* line 232: location_info["road1"]
    THEN { [exc |-> "KeyError", val |-> EmptyDict, counted |-> {}] }
    ELSE LET query == get_query(table, None, start_time, end_time)
             joined == JoinedRows(query, DictGet(location_info, "road1"))
         IN  { [ exc |-> "",
                 val |-> ListOf([i \in DOMAIN ord |-> GroupRecord(joined, ord[i])]),
                 counted |-> { j[1] : j \in { x \in joined :
                                 /\ x[1].road_segment_name # Null
                                 /\ \E i \in DOMAIN ord :
                                       ord[i] = <<x[1].road_segment_name, x[2].from_km, x[2].to_km>> } } ]
               : ord \in OrderedGroups(joined, limit) }

\* rows the accident table may hold for the road statistics
SegmentAccidents ==
    << [id |-> 1, road1 |-> "90", road_segment_number |-> 1, road_segment_name |-> "seg_a",
        provider_code |-> 1, accident_timestamp |-> <<2020, 3, 1, 10>>],
       [id |-> 2, road1 |-> "90", road_segment_number |-> 1, road_segment_name |-> "seg_a",
        provider_code |-> 3, accident_timestamp |-> <<2020, 5, 9, 7>>],
       [id |-> 3, road1 |-> "90", road_segment_number |-> 2, road_segment_name |-> "seg_b",
        provider_code |-> 1, accident_timestamp |-> <<2020, 7, 7, 12>>],
       [id |-> 4, road1 |-> "90", road_segment_number |-> 3, road_segment_name |-> "seg_c",
        provider_code |-> 2, accident_timestamp |-> <<2020, 8, 1, 0>>],
       [id |-> 5, road1 |-> "90", road_segment_number |-> 3, road_segment_name |-> "seg_c",
        provider_code |-> 1, accident_timestamp |-> <<2019, 2, 2, 2>>],
       [id |-> 6, road1 |-> "4", road_segment_number |-> 1, road_segment_name |-> Null,
        provider_code |-> 1, accident_timestamp |-> <<2020, 9, 9, 9>>] >>

SegmentTables ==
    SUBSET {SegmentAccidents[i] : i \in {j \in 1 .. Len(SegmentAccidents) : j <= MaxAccidents}}

\* the values callers pass as resolution
ResolutionArgs ==
    { PyStr("interurban_road"), PyStr("city"), PyTuple(<<PyStr("interurban_road")>>) }

LocationInfos ==
    { {<<"road1", "90">>, <<"road_segment_name", "seg_a">>},
      {<<"road1", "4">>},
      {<<"yishuv_name", "haifa">>} }

\* the time windows of a call: none, or the year 2020
Windows == { <<None, None>>, <<Some(<<2020, 1, 1>>), Some(<<2020, 12, 31>>)>> }

(***************************************************************************)
(* get_accidents_stats                                                     *)
(***************************************************************************)
\* lines 246-250: filters = filters or {}; filters["provider_code"] = [...].
\* A non-empty dict passed by the caller is the dict the assignment writes to
WithProviderCodes(filters) ==
    DictSet(IF Truthy(filters) THEN filters[1] ELSE {}, "provider_code",
            <<CBS_ACCIDENT_TYPE_1_CODE, CBS_ACCIDENT_TYPE_3_CODE>>)

\* the caller's filters object when the call is over
FiltersAfter(filters) == IF Truthy(filters) THEN Some(WithProviderCodes(filters)) ELSE filters

\* NULL in a column: the text columns may hold it, the integer columns of
\* the tables hold a value in every row
TextColumns == {"yishuv_name", "road1", "road_segment_name", "street1_hebrew"}
IsNull(column, value) == column \in TextColumns /\ value = Null

\* a set of integers as the sequence of its elements in ascending order
RECURSIVE Ascending(_)
Ascending(s) ==
    IF s = {} THEN <<>>
    ELSE LET least == CHOOSE x \in s : \A y \in s : x <= y
         IN  <<least>> \o Ascending(s \ {least})

\* lines 253-260: one {group_by: value, "count": n} record for each value of
\* the group_by column, count(column) counting the rows where it is not
\* NULL.  The data store returns the groups in an order of its choosing;
\* they are taken in ascending order of the value
GroupCounts(rows, group_by, count) ==
    LET values == Ascending({row[group_by] : row \in rows})
    IN  [ i \in DOMAIN values |->
            (group_by :> values[i]) @@
            ("count" :> Cardinality({row \in rows : row[group_by] = values[i]
                                                     /\ ~IsNull(count, row[count])})) ]

\* the outcome: the records returned, the rows they count and the caller's
\* filters object after the call
get_accidents_stats(table_obj, filters, group_by, count, start_time, end_time) ==
    LET query == get_query(table_obj, Some(WithProviderCodes(filters)), start_time, end_time)
    IN  [ records |-> GroupCounts(query, group_by, count),
          counted |-> query,
          filters |-> FiltersAfter(filters) ]

\* rows the involved-party table (InvolvedMarkerView) may hold
InvolvedRows ==
    << [id |-> 1, accident_id |-> 10, provider_code |-> 1, accident_year |-> 2020,
        injury_severity |-> 1, involve_vehicle_type |-> 1,
        accident_timestamp |-> <<2020, 3, 1, 10>>],
       [id |-> 2, accident_id |-> 10, provider_code |-> 3, accident_year |-> 2020,
        injury_severity |-> 1, involve_vehicle_type |-> 8,
        accident_timestamp |-> <<2020, 4, 2, 8>>],
       [id |-> 3, accident_id |-> 10, provider_code |-> 1, accident_year |-> 2020,
        injury_severity |-> 2, involve_vehicle_type |-> 2,
        accident_timestamp |-> <<2020, 3, 1, 10>>],
       [id |-> 4, accident_id |-> 11, provider_code |-> 2, accident_year |-> 2019,
        injury_severity |-> 1, involve_vehicle_type |-> 15,
        accident_timestamp |-> <<2019, 6, 6, 6>>],
       [id |-> 5, accident_id |-> 12, provider_code |-> 1, accident_year |-> 2018,
        injury_severity |-> 3, involve_vehicle_type |-> 1,
        accident_timestamp |-> <<2018, 1, 5, 20>>],
       [id |-> 6, accident_id |-> 13, provider_code |-> 3, accident_year |-> 2017,
        injury_severity |-> 2, involve_vehicle_type |-> 15,
        accident_timestamp |-> <<2017, 11, 30, 9>>] >>

\* the involved-party table of the data store
InvolvedMarkerView ==
    {InvolvedRows[i] : i \in {j \in 1 .. Len(InvolvedRows) : j <= MaxInvolved}}

(***************************************************************************)
(* percentage_accidents_by_car_type.  A float 100 * v / total_count is the *)
(* pair <<100 * v, total_count>>; a defaultdict is the sequence of its     *)
(* <<key, value>> entries in insertion order.                              *)
(***************************************************************************)
\* anyway.backend_constants.BE_CONST: the vehicle types of each bucket
CAR_VEHICLE_TYPES == {1}
LARGE_VEHICLE_TYPES == {2, 3}
MOTORCYCLE_VEHICLE_TYPES == {8}
BICYCLE_AND_SMALL_MOTOR_VEHICLE_TYPES == {15, 21}

\* lines 615-624: the bucket of a vehicle type
CarType(vehicle_type) ==
    IF vehicle_type \in CAR_VEHICLE_TYPES THEN "private_car"
    ELSE IF vehicle_type \in LARGE_VEHICLE_TYPES THEN "commercial_truck"
    ELSE IF vehicle_type \in MOTORCYCLE_VEHICLE_TYPES THEN "motorcycle"
    ELSE IF vehicle_type \in BICYCLE_AND_SMALL_MOTOR_VEHICLE_TYPES THEN "bicycle_scooter"
    ELSE "other"

HasEntry(d, key) == \E i \in 1 .. Len(d) : d[i][1] = key
EntryOf(d, key) == d[CHOOSE i \in 1 .. Len(d) : d[i][1] = key][2]

\* d[key] += count on a defaultdict
Accumulate(d, key, count) ==
    IF HasEntry(d, key)
    THEN [i \in 1 .. Len(d) |-> IF d[i][1] = key THEN <<key, d[i][2] + count>> ELSE d[i]]
    ELSE Append(d, <<key, count>>)

\* lines 612-624
RECURSIVE CarTypeLoop(_, _)
CarTypeLoop(data, driver_types) ==
    IF data = <<>> THEN driver_types
    ELSE LET item == Head(data)
         IN  CarTypeLoop(Tail(data),
                         Accumulate(driver_types, CarType(item.involve_vehicle_type),
                                    item.count))

RECURSIVE TotalCount(_)
TotalCount(data) == IF data = <<>> THEN 0 ELSE Head(data).count + TotalCount(Tail(data))

\* line 628: 100 * v / total_count
Percentage(v, total_count) == <<100 * v, total_count>>

\* the value of a missing key of a defaultdict(float)
ZeroFloat == <<0, 1>>

\* counts is the dict driver_types before the division
percentage_accidents_by_car_type(involved_by_vehicle_type_data) ==
    LET driver_types == CarTypeLoop(involved_by_vehicle_type_data, <<>>)
        total_count == TotalCount(involved_by_vehicle_type_data)
    IN  IF driver_types # <<>> /\ total_count = 0
        THEN [exc |-> "ZeroDivisionError", val |-> <<>>, counts |-> driver_types]
        ELSE [ exc |-> "",
               val |-> [i \in 1 .. Len(driver_types) |->
                          <<driver_types[i][1], Percentage(driver_types[i][2], total_count)>>],
               counts |-> driver_types ]

(***************************************************************************)
(* percentage_accidents_by_car_type_national_data_cache: the function      *)
(* under functools.lru_cache.  The cache is the sequence of its entries,   *)
(* the least recently used first.                                          *)
(***************************************************************************)
\* line 633: maxsize
LRU_MAXSIZE == 64

\* lines 634-642: the wrapped function
national_data(start_time, end_time) ==
    percentage_accidents_by_car_type(
        get_accidents_stats(InvolvedMarkerView, None, "involve_vehicle_type",
                            "involve_vehicle_type", Some(start_time), Some(end_time)).records)

\* line 633: the lookup of the arguments in the cache
NeverCached(cache, key) == FALSE
Cached(cache, key) == \E i \in 1 .. Len(cache) : cache[i].key = key

\* a hit makes the entry the most recently used
Touch(cache, key) ==
    LET IsOther(e) == e.key # key
        IsKey(e) == e.key = key
    IN  SelectSeq(cache, IsOther) \o SelectSeq(cache, IsKey)

\* a miss stores the result; a full cache drops its least recently used entry
Store(cache, key, result) ==
    Append(IF Len(cache) >= LRU_MAXSIZE THEN Tail(cache) ELSE cache,
           [key |-> key, result |-> result])

\* the outcome of a call: the result, whether the wrapped function ran, and
\* the cache after the call (an exception is not cached)
percentage_accidents_by_car_type_national_data_cache(cache, start_time, end_time) ==
    LET key == <<start_time, end_time>>
    IN  IF Cached(cache, key)
        THEN [ ret |-> (CHOOSE e \in {cache[i] : i \in 1 .. Len(cache)} : e.key = key).result,
               computed |-> FALSE,
               cache |-> Touch(cache, key) ]
        ELSE LET result == national_data(start_time, end_time)
             IN  [ ret |-> result,
                   computed |-> TRUE,
                   cache |-> IF result.exc = "" THEN Store(cache, key, result) ELSE cache ]

\* the time windows callers ask for: window k starts k - 1 years before 2020
EndOfData == <<2020, 12, 31>>
WindowStart(k) == <<EndOfData[1] + 1 - k, 1, 1>>

\* what the callers of the cached function have asked so far: for each key
\* the result of its last call and the other keys asked since
Remember(asked, key, ret) ==
    [ q \in DOMAIN asked \cup {key} |->
        IF q = key THEN [ret |-> ret, since |-> {}]
        ELSE [asked[q] EXCEPT !.since = @ \cup {key}] ]

(***************************************************************************)
(* get_most_severe_accidents_with_entities and get_accidents_heat_map      *)
(***************************************************************************)
\* with_entities: the columns of a row that the query selects
Project(row, entities) == [column \in entities |-> row[column]]

\* lines 286-288: order_by(accident_severity, accident_timestamp.desc())
SevereBefore(a, b) ==
    \/ a.accident_severity < b.accident_severity
    \/ /\ a.accident_severity = b.accident_severity
       /\ Before(b.accident_timestamp, a.accident_timestamp)

\* lines 286-289: every order the data store may give the rows in, cut at limit
MostSevereOrders(rows, limit) ==
    { ord \in [1 .. Limited(Cardinality(rows), limit) -> rows] :
        /\ \A i, j \in DOMAIN ord : i < j => ord[i] # ord[j] /\ ~SevereBefore(ord[j], ord[i])
        /\ \A row \in rows \ {ord[i] : i \in DOMAIN ord} :
              \A i \in DOMAIN ord : ~SevereBefore(row, ord[i]) }

\* line 277: the default of limit
DefaultSevereLimit == 10

\* the outcomes the call may have
get_most_severe_accidents_with_entities(table_obj, filters, entities, start_time, end_time, limit) ==
    LET query == get_query(table_obj, Some(WithProviderCodes(filters)), start_time, end_time)
    IN  { [ records |-> [i \in DOMAIN ord |-> Project(ord[i], entities)],
            counted |-> {ord[i] : i \in DOMAIN ord},
            filters |-> FiltersAfter(filters) ]
          : ord \in MostSevereOrders(query, limit) }

\* the records are in an order of the data store's choosing: each row
\* selected is paired with its record
get_accidents_heat_map(table_obj, filters, start_time, end_time) ==
    LET query == get_query(table_obj, Some(WithProviderCodes(filters)), start_time, end_time)
    IN  [ records |-> [row \in query |-> Project(row, {"longitude", "latitude"})],
          counted |-> query,
          filters |-> FiltersAfter(filters) ]

\* the statistic functions that take the context's location filters
StatisticFunctions ==
    {"get_accidents_stats", "get_most_severe_accidents_with_entities", "get_accidents_heat_map"}

\* lines 377-384, 407-413, 797-802: a statistic called with the fields of a context
CallStatistic(statistic, table_obj, request_params) ==
    LET filters == Some(request_params.location_info)
        start_time == Some(request_params.start_time)
        end_time == Some(request_params.end_time)
    IN  CASE statistic = "get_accidents_stats" ->
               { get_accidents_stats(table_obj, filters, "accident_severity",
                                     "accident_severity", start_time, end_time) }
          [] statistic = "get_most_severe_accidents_with_entities" ->
               get_most_severe_accidents_with_entities(
                   table_obj, filters, {"id", "provider_code", "accident_timestamp"},
                   start_time, end_time, DefaultSevereLimit)
          [] statistic = "get_accidents_heat_map" ->
               { get_accidents_heat_map(table_obj, filters, start_time, end_time) }

(***************************************************************************)
(* get_casualties_count_in_accident                                        *)
(***************************************************************************)
RECURSIVE SumOfCounts(_)
SumOfCounts(records) ==
    IF records = <<>> THEN 0 ELSE Head(records).count + SumOfCounts(Tail(records))

\* lines 470-475: the scalar injury_severity is the one-element list that
\* get_query makes of it (line 184)
get_casualties_count_in_accident(table_obj, accident_id, provider_code, injury_severity, accident_year) ==
    LET filters == { <<"accident_id", accident_id>>,
                     <<"provider_code", provider_code>>,
                     <<"injury_severity", <<injury_severity>>>>,
                     <<"accident_year", accident_year>> }
        casualties == get_accidents_stats(table_obj, Some(filters), "injury_severity",
                                          "injury_severity", None, None)
    IN  [ res |-> SumOfCounts(casualties.records), counted |-> casualties.counted ]

(***************************************************************************)
(* count_accidents_by_driver_type                                          *)
(***************************************************************************)
\* anyway.backend_constants.BE_CONST: the vehicle types of each driver type
PROFESSIONAL_DRIVER_VEHICLE_TYPES == {2, 3}
PRIVATE_DRIVER_VEHICLE_TYPES == {1, 8}
LIGHT_ELECTRIC_VEHICLE_TYPES == {15, 21}
OTHER_VEHICLES_TYPES == {17}

\* anyway.infographics_dictionaries.driver_type_hebrew_dict
driver_type_hebrew_dict ==
    [ professional_driver    |-> "professional driver",
      private_vehicle_driver |-> "private driver",
      other_driver           |-> "other" ]

\* lines 453-461: the key of driver_type_hebrew_dict a vehicle type counts
\* under; "" when no branch is taken
DriverTypeOrOther(vehicle_type) ==
    IF vehicle_type \in PROFESSIONAL_DRIVER_VEHICLE_TYPES THEN "professional_driver"
    ELSE IF vehicle_type \in PRIVATE_DRIVER_VEHICLE_TYPES THEN "private_vehicle_driver"
    ELSE "other_driver"

DriverType(vehicle_type) ==
    IF vehicle_type \in PROFESSIONAL_DRIVER_VEHICLE_TYPES THEN "professional_driver"
    ELSE IF vehicle_type \in PRIVATE_DRIVER_VEHICLE_TYPES THEN "private_vehicle_driver"
    ELSE IF \/ vehicle_type \in LIGHT_ELECTRIC_VEHICLE_TYPES
            \/ vehicle_type \in OTHER_VEHICLES_TYPES THEN "other_driver"
    ELSE ""

\* lines 451-461
RECURSIVE DriverTypeLoop(_, _)
DriverTypeLoop(data, driver_types) ==
    IF data = <<>> THEN driver_types
    ELSE LET item == Head(data)
             key == DriverType(item.involve_vehicle_type)
         IN  DriverTypeLoop(Tail(data),
                            IF key = "" THEN driver_types
                            ELSE Accumulate(driver_types, driver_type_hebrew_dict[key],
                                            item.count))

count_accidents_by_driver_type(data) ==
    LET driver_types == DriverTypeLoop(data, <<>>)
    IN  [ i \in 1 .. Len(driver_types) |->
            [driver_type |-> driver_types[i][1], count |-> driver_types[i][2]] ]

\* the vehicle types of the records: of each membership set, and one of none
VehicleTypes == {1, 2, 8, 15, 17, 99}

VehicleRecords == [involve_vehicle_type : VehicleTypes, count : {1, 2}]

(***************************************************************************)
(* stats_accidents_by_car_type_with_national_data                          *)
(***************************************************************************)
\* data_by_segment[k] on a defaultdict(float)
FloatOf(d, key) == IF HasEntry(d, key) THEN EntryOf(d, key) ELSE ZeroFloat

\* the outcome: the list returned, the two percentage dicts it was made
\* from, whether the national data were computed, and the cache after the call
stats_accidents_by_car_type_with_national_data(cache, involved_by_vehicle_type_data, start_time, end_time) ==
    LET data_by_segment == percentage_accidents_by_car_type(involved_by_vehicle_type_data)
        national == percentage_accidents_by_car_type_national_data_cache(
                        cache, start_time, end_time)
        national_data_items == national.ret.val
    IN  IF data_by_segment.exc # ""
        THEN [ exc |-> data_by_segment.exc, out |-> <<>>, data_by_segment |-> data_by_segment,
               national_data |-> national.ret, computed |-> FALSE, cache |-> cache ]
        ELSE IF national.ret.exc # ""
        THEN [ exc |-> national.ret.exc, out |-> <<>>, data_by_segment |-> data_by_segment,
               national_data |-> national.ret, computed |-> national.computed,
               cache |-> national.cache ]
        ELSE [ exc |-> "",
               out |-> [ i \in 1 .. Len(national_data_items) |->
                           [ car_type |-> national_data_items[i][1],
                             percentage_segment |->
                                 FloatOf(data_by_segment.val, national_data_items[i][1]),
                             percentage_country |->
                                 EntryOf(national_data_items, national_data_items[i][1]) ] ],
               data_by_segment |-> data_by_segment,
               national_data |-> national.ret,
               computed |-> national.computed,
               cache |-> national.cache ]

(***************************************************************************)
(* The state machine: the caller makes one call at a time and takes its    *)
(* outcome.                                                                *)
(***************************************************************************)
Idle == [op |-> "none"]

Init ==
    /\ markers \in Tables
    /\ lru = <<>>
    /\ requested = <<>>
    /\ call = Idle

InitNoData ==
    /\ markers = {}
    /\ lru = <<>>
    /\ requested = <<>>
    /\ call = Idle

CallSerialize ==
    /\ call = Idle
    /\ \E w \in Widgets :
        call' = [op |-> "serialize", widget |-> w, ret |-> Serialize(w)]
    /\ UNCHANGED <<markers, lru, requested>>

CallGenerateWidgets ==
    /\ call = Idle
    /\ \E n \in RegistryLengths, to_cache \in BOOLEAN :
        \E shapes \in [1 .. n -> DescriptorShapes] :
            LET widgets_def == Registry(shapes)
            IN  call' = [op |-> "generate_widgets", widgets_def |-> widgets_def,
                         to_cache |-> to_cache,
                         ret |-> generate_widgets(None, widgets_def, to_cache)]
    /\ UNCHANGED <<markers, lru, requested>>

CallGetRequestParams ==
    /\ call = Idle
    /\ \E news_flash_id \in NewsFlashIds, years_ago \in YearsAgoInputs :
        call' = [op |-> "get_request_params", news_flash_id |-> news_flash_id,
                 years_ago |-> years_ago,
                 ret |-> get_request_params(news_flash_id, years_ago, markers)]
    /\ UNCHANGED <<markers, lru, requested>>

CallCreateInfographicsData ==
    /\ call = Idle
    /\ \E news_flash_id \in NewsFlashIds, years_ago \in YearsAgoInputs :
        call' = [op |-> "create_infographics_data", news_flash_id |-> news_flash_id,
                 years_ago |-> years_ago,
                 rp |-> get_request_params(news_flash_id, years_ago, markers),
                 ret |-> create_infographics_data(news_flash_id, years_ago, markers)]
    /\ UNCHANGED <<markers, lru, requested>>

CallGetInfographicsData ==
    /\ call = Idle
    /\ \E news_flash_id \in NewsFlashIds, years_ago \in YearsAgoInputs,
          cache \in CacheOutcomes :
        call' = [op |-> "get_infographics_data", news_flash_id |-> news_flash_id,
                 years_ago |-> years_ago, cache |-> cache,
                 ret |-> get_infographics_data(news_flash_id, years_ago, markers, cache)]
    /\ UNCHANGED <<markers, lru, requested>>

CallGetAccidentCountByAccidentType ==
    /\ call = Idle
    /\ \E n \in 0 .. MaxRecords :
        \E raw \in [1 .. n -> RawRecords] :
            call' = [op |-> "get_accident_count_by_accident_type", raw |-> raw,
                     ret |-> get_accident_count_by_accident_type(raw)]
    /\ UNCHANGED <<markers, lru, requested>>

CallFilterAndGroupInjuredCountPerAgeGroup ==
    /\ call = Idle
    /\ \E n \in 0 .. MaxRecords :
        \E data_of_ages \in [1 .. n -> AgeRecords] :
            call' = [op |-> "filter_and_group_injured_count_per_age_group",
                     data_of_ages |-> data_of_ages,
                     ret |-> filter_and_group_injured_count_per_age_group(data_of_ages)]
    /\ UNCHANGED <<markers, lru, requested>>

CallGetTopRoadSegmentsAccidentsPerKm ==
    /\ call = Idle
    /\ \E resolution \in ResolutionArgs, location_info \in LocationInfos,
          table \in SegmentTables, window \in Windows, limit \in {1, 2, DefaultLimit} :
        \E ret \in get_top_road_segments_accidents_per_km(
                       resolution, location_info, table, window[1], window[2], limit) :
            call' = [op |-> "get_top_road_segments_accidents_per_km",
                     resolution |-> resolution, location_info |-> location_info,
                     table |-> table, window |-> window, limit |-> limit, ret |-> ret]
    /\ UNCHANGED <<markers, lru, requested>>

\* a caller asks for the first window or for a window not asked before
CallPercentageAccidentsByCarTypeNationalDataCache ==
    /\ call = Idle
    /\ \E k \in {1, Cardinality(DOMAIN requested) + 1} :
        /\ k <= MaxWindows
        /\ LET key == <<WindowStart(k), EndOfData>>
               out == percentage_accidents_by_car_type_national_data_cache(
                          lru, WindowStart(k), EndOfData)
           IN  /\ call' = [op |-> "percentage_accidents_by_car_type_national_data_cache",
                           start_time |-> WindowStart(k), end_time |-> EndOfData,
                           earlier |-> IF key \in DOMAIN requested
                                       THEN Some(requested[key]) ELSE None,
                           computed |-> out.computed, ret |-> out.ret]
               /\ lru' = out.cache
               /\ requested' = Remember(requested, key, out.ret)
    /\ UNCHANGED markers

\* a context is built and one statistic function is called with its fields;
\* after is the context when the statistic has returned
CallStatisticWithContext ==
    /\ call = Idle
    /\ \E news_flash_id \in NewsFlashIds, years_ago \in YearsAgoInputs,
          statistic \in StatisticFunctions :
        LET rp == get_request_params(news_flash_id, years_ago, markers)
        IN  /\ rp.exc = ""
            /\ rp.val # None
            /\ \E ret \in CallStatistic(statistic, markers, rp.val[1]) :
                  call' = [op |-> "statistic", statistic |-> statistic,
                           news_flash_id |-> news_flash_id,
                           request_params |-> rp.val[1],
                           after |-> [rp.val[1] EXCEPT !.location_info = ret.filters[1]],
                           ret |-> ret]
    /\ UNCHANGED <<markers, lru, requested>>

CallGetCasualtiesCountInAccident ==
    /\ call = Idle
    /\ \E table \in SUBSET InvolvedMarkerView, accident_id \in {10, 11},
          provider_code \in {CBS_ACCIDENT_TYPE_1_CODE, CBS_ACCIDENT_TYPE_3_CODE},
          injury_severity \in {1, 2},
          accident_year \in {2019, 2020} :
        call' = [op |-> "get_casualties_count_in_accident", table |-> table,
                 accident_id |-> accident_id, provider_code |-> provider_code,
                 injury_severity |-> injury_severity, accident_year |-> accident_year,
                 ret |-> get_casualties_count_in_accident(
                             table, accident_id, provider_code, injury_severity,
                             accident_year)]
    /\ UNCHANGED <<markers, lru, requested>>

CallCountAccidentsByDriverType ==
    /\ call = Idle
    /\ \E n \in 0 .. MaxRecords :
        \E data \in [1 .. n -> VehicleRecords] :
            call' = [op |-> "count_accidents_by_driver_type", data |-> data,
                     ret |-> count_accidents_by_driver_type(data)]
    /\ UNCHANGED <<markers, lru, requested>>

\* the local data are any records; the national data are those of the first window
CallStatsAccidentsByCarTypeWithNationalData ==
    /\ call = Idle
    /\ \E n \in 0 .. MaxRecords :
        \E data \in [1 .. n -> VehicleRecords] :
            LET out == stats_accidents_by_car_type_with_national_data(
                           lru, data, WindowStart(1), EndOfData)
            IN  /\ call' = [op |-> "stats_accidents_by_car_type_with_national_data",
                            data |-> data, ret |-> out]
                /\ lru' = out.cache
                /\ requested' = Remember(requested, <<WindowStart(1), EndOfData>>,
                                         out.national_data)
    /\ UNCHANGED markers

\* lines 881-891 of create_infographics_data: the road-segment statistic is
\* called with the resolution, location_info and window of the context
CallTopRoadSegmentsOfContext ==
    /\ call = Idle
    /\ \E news_flash_id \in NewsFlashIds, years_ago \in YearsAgoInputs,
          table \in SegmentTables :
        LET rp == get_request_params(news_flash_id, years_ago, markers)
        IN  /\ rp.exc = ""
            /\ rp.val # None
            /\ \E ret \in get_top_road_segments_accidents_per_km(
                              rp.val[1].resolution, rp.val[1].location_info, table,
                              Some(rp.val[1].start_time), Some(rp.val[1].end_time),
                              DefaultLimit) :
                  call' = [op |-> "top_road_segments_of_context",
                           news_flash_id |-> news_flash_id,
                           request_params |-> rp.val[1], table |-> table, ret |-> ret]
    /\ UNCHANGED <<markers, lru, requested>>

\* line 678: item.generate_items(request_params, item) for a descriptor of
\* get_widgets_def and a context built by get_request_params
CallGenerateItems ==
    /\ call = Idle
    /\ \E news_flash_id \in NewsFlashIds, years_ago \in YearsAgoInputs :
        LET rp == get_request_params(news_flash_id, years_ago, markers)
        IN  /\ rp.exc = ""
            /\ rp.val # None
            /\ \E i \in 1 .. Len(get_widgets_def) :
                call' = [op |-> "generate_items", widget_def |-> get_widgets_def[i],
                         request_params |-> rp.val,
                         ret |-> generate_items(get_widgets_def[i], rp.val)]
    /\ UNCHANGED <<markers, lru, requested>>

\* the caller takes the outcome of the call
Return ==
    /\ call # Idle
    /\ call' = Idle
    /\ UNCHANGED <<markers, lru, requested>>

Next ==
    \/ CallSerialize
    \/ CallGenerateWidgets
    \/ CallGetRequestParams
    \/ CallCreateInfographicsData
    \/ CallGetInfographicsData
    \/ CallGetAccidentCountByAccidentType
    \/ CallFilterAndGroupInjuredCountPerAgeGroup
    \/ CallGetTopRoadSegmentsAccidentsPerKm
    \/ CallPercentageAccidentsByCarTypeNationalDataCache
    \/ CallStatisticWithContext
    \/ CallGetCasualtiesCountInAccident
    \/ CallCountAccidentsByDriverType
    \/ CallStatsAccidentsByCarTypeWithNationalData
    \/ CallTopRoadSegmentsOfContext
    \/ CallGenerateItems
    \/ Return

Spec == Init /\ [][Next]_vars

\* the widget pipeline alone
NextWidgets == CallSerialize \/ CallGenerateWidgets \/ Return
SpecWidgets == InitNoData /\ [][NextWidgets]_vars

\* the request-params builder and the two entry points, over every table
NextRequests ==
    \/ CallGetRequestParams
    \/ CallCreateInfographicsData
    \/ CallGetInfographicsData
    \/ CallGenerateItems
    \/ Return
SpecRequests == Init /\ [][NextRequests]_vars

\* the road-segment statistic alone
NextSegments == CallGetTopRoadSegmentsAccidentsPerKm \/ Return
SpecSegments == InitNoData /\ [][NextSegments]_vars

\* the national-data cache alone
NextCache == CallPercentageAccidentsByCarTypeNationalDataCache \/ Return
SpecCache == InitNoData /\ [][NextCache]_vars

\* the statistics called with a context, over every table
NextContext == CallStatisticWithContext \/ CallTopRoadSegmentsOfContext \/ Return
SpecContext == Init /\ [][NextContext]_vars

\* the statistic functions alone
NextStats ==
    \/ CallGetAccidentCountByAccidentType
    \/ CallFilterAndGroupInjuredCountPerAgeGroup
    \/ CallGetCasualtiesCountInAccident
    \/ CallCountAccidentsByDriverType
    \/ Return

\* the vehicle-type percentages with the national data
NextCarTypes == CallStatsAccidentsByCarTypeWithNationalData \/ Return
SpecCarTypes == InitNoData /\ [][NextCarTypes]_vars
SpecStats == InitNoData /\ [][NextStats]_vars

PosOfId(widgets_def, id) ==
    CHOOSE k \in 1 .. Len(widgets_def) : widgets_def[k].widget_id = id
PosOfName(widgets_def, n) ==
    CHOOSE k \in 1 .. Len(widgets_def) : WidgetDef_get_name(widgets_def[k]) = n

GenerateWidgetsReturned == call.op = "generate_widgets" /\ call.ret.exc = ""

(***************************************************************************)
(* C3: the widgets generate_widgets returns come from the registry and     *)
(* keep the relative order of their descriptors; a descriptor whose        *)
(* inclusion predicate is false on the Widget it produced has no widget in *)
(* the output.                                                             *)
(***************************************************************************)
C3_RegistryOrderKept ==
    GenerateWidgetsReturned =>
        LET defs == call.widgets_def
            res == call.ret.res
        IN  /\ \A i \in 1 .. Len(res) :
                  \E k \in 1 .. Len(defs) : WidgetDef_get_name(defs[k]) = res[i].name
            /\ \A i, j \in 1 .. Len(res) :
                  i < j => PosOfName(defs, res[i].name) < PosOfName(defs, res[j].name)
            /\ \A k \in 1 .. Len(defs) :
                  LET g == generate_items(defs[k], None)
                  IN  ( /\ defs[k].is_included_in_response # "None"
                        /\ g.exc = ""
                        /\ ~CallPredicate(defs[k].is_included_in_response, g.widget[1]) )
                      => \A i \in 1 .. Len(res) : res[i].name # WidgetDef_get_name(defs[k])

C3_Witness ==
    /\ GenerateWidgetsReturned
    /\ Len(call.widgets_def) = 3
    /\ call.widgets_def[2].is_included_in_response = "never"
    /\ call.widgets_def[2].generate_items = "gen_items"
    /\ call.widgets_def[2].is_included_in_cache = call.to_cache
    /\ Len(call.ret.res) = 2
    /\ call.ret.res[1].name = "accident_count_by_severity"
    /\ call.ret.res[2].name = "most_severe_accidents"

(***************************************************************************)
(* C4: a descriptor without an inclusion predicate whose cache eligibility *)
(* matches to_cache has its generated Widget serialized into the output.   *)
(* The code's test `item.is_included_in_response and ...` is falsy for a   *)
(* predicate of None, so such a widget is dropped.                         *)
(***************************************************************************)
C4_NoPredicateIncluded ==
    GenerateWidgetsReturned =>
        LET defs == call.widgets_def
            res == call.ret.res
        IN  \A k \in 1 .. Len(defs) :
                ( /\ defs[k].is_included_in_response = "None"
                  /\ defs[k].is_included_in_cache = call.to_cache )
                => \E i \in 1 .. Len(res) :
                      res[i] = Serialize(generate_items(defs[k], None).widget[1])

C1_NullParamsGiveEmptyEnvelope ==
    ( /\ call.op = "create_infographics_data"
      /\ call.rp.exc = ""
      /\ call.rp.val = None )
    => ( call.ret.exc = "" /\ call.ret.val = Some(EmptyDict) )

(***************************************************************************)
(* C2: get_infographics_data never raises, and whenever the cache          *)
(* collaborator, get_request_params or generate_widgets raised, it returns *)
(* the empty result {}.                                                    *)
(***************************************************************************)
C2_FailuresGiveEmptyResult ==
    call.op = "get_infographics_data" =>
        /\ call.ret.exc = ""
        /\ ( \/ call.cache.exc # ""
             \/ call.ret.rp.exc # ""
             \/ call.ret.widgets.exc # "" ) => call.ret.val = EmptyDict

C2_Witness ==
    /\ call.op = "get_infographics_data"
    /\ call.cache.exc = ""
    /\ call.cache.list = <<CachedWidget>>
    /\ call.ret.rp.exc = "TypeError"
    /\ call.ret.exc = ""
    /\ call.ret.val = EmptyDict

(***************************************************************************)
(* C7: in every RequestParams that get_request_params builds, end_time is  *)
(* the date of the latest accident_timestamp of the whole accident table   *)
(* and start_time is January 1 of the year end_time.year + 1 - yearsAgo.   *)
(***************************************************************************)
C7_WindowFromGlobalMaximum ==
    ( /\ call.op = "get_request_params"
      /\ call.ret.exc = ""
      /\ call.ret.val # None )
    => LET rp == call.ret.val[1]
           years == PyInt(call.years_ago).n
       IN  /\ \E r \in markers :
                /\ \A q \in markers : ~Before(r.accident_timestamp, q.accident_timestamp)
                /\ rp.end_time = <<r.accident_timestamp[1], r.accident_timestamp[2],
                                   r.accident_timestamp[3]>>
           /\ rp.start_time[1] = rp.end_time[1] + 1 - years
           /\ rp.start_time[2] = 1
           /\ rp.start_time[3] = 1

\* yearsAgo = 3 and a latest accident on 2020-06-15 that is not in the event's city
C7_Witness ==
    /\ call.op = "get_request_params"
    /\ call.news_flash_id = 1
    /\ call.years_ago = IntVal(3)
    /\ call.ret.exc = ""
    /\ call.ret.val # None
    /\ call.ret.val[1].location_info = {<<"yishuv_name", "tel_aviv">>}
    /\ call.ret.val[1].end_time = <<2020, 6, 15>>
    /\ call.ret.val[1].start_time = <<2018, 1, 1>>
    /\ \E r \in markers : r.yishuv_name = "tel_aviv"
    /\ \A r \in markers : r.yishuv_name = "tel_aviv" => r.accident_timestamp[1] < 2020

(***************************************************************************)
(* C8: for a yearsAgo argument that is not an integer in [0, 100]          *)
(* get_request_params returns None, raises nothing and queries nothing.    *)
(* The code catches ValueError only: int(None) raises TypeError.           *)
(***************************************************************************)
AcceptedYearsAgo(v) ==
    /\ v.t \in {"int", "str"}
    /\ PyInt(v).exc = ""
    /\ PyInt(v).n >= MinYearsAgo
    /\ PyInt(v).n <= MaxYearsAgo

C8_InvalidYearsAgoGivesNull ==
    ( call.op = "get_request_params" /\ ~AcceptedYearsAgo(call.years_ago) )
    => ( /\ call.ret.exc = ""
         /\ call.ret.val = None
         /\ call.ret.queries = <<>> )

(***************************************************************************)
(* C9: get_request_params returns None when the event does not exist, when *)
(* its resolution is missing or unknown to resolution_dict, and when every *)
(* location field of its resolution is NULL.                               *)
(***************************************************************************)
Unresolvable(news_flash_id) ==
    \/ \A nf \in NewsFlash : nf.id # news_flash_id
    \/ \E nf \in NewsFlash :
          /\ nf.id = news_flash_id
          /\ \/ nf.resolution \in {Null, ""}
             \/ nf.resolution \notin DOMAIN resolution_dict
             \/ \A i \in 1 .. Len(resolution_dict[nf.resolution]) :
                    nf[resolution_dict[nf.resolution][i]] = Null

C9_UnresolvableEventGivesNull ==
    ( call.op = "get_request_params" /\ Unresolvable(call.news_flash_id) )
    => ( call.ret.exc = "" /\ call.ret.val = None )

(***************************************************************************)
(* C10: get_accident_count_by_accident_type puts the collision bucket      *)
(* first, its count the sum of the counts of the raw records whose type    *)
(* contains the collision substring; the other records follow unchanged in *)
(* query order; the output counts sum to the raw counts.                   *)
(***************************************************************************)
RECURSIVE SumCounts(_)
SumCounts(records) ==
    IF records = <<>> THEN 0 ELSE Head(records).count + SumCounts(Tail(records))

ContainsCollision(accident_type) ==
    \E i \in 1 .. Len(accident_type) - 1 :
        accident_type[i] = COLLISION[1] /\ accident_type[i + 1] = COLLISION[2]

C10_CollisionBucketFirst ==
    call.op = "get_accident_count_by_accident_type" =>
        LET raw == call.raw
            out == call.ret
        IN  /\ Len(out) >= 1
            /\ out[1].accident_type = COLLISION
            /\ out[1].count =
                  SumCounts(SelectSeq(raw, LAMBDA r : ContainsCollision(r.accident_type)))
            /\ Tail(out) = SelectSeq(raw, LAMBDA r : ~ContainsCollision(r.accident_type))
            /\ SumCounts(out) = SumCounts(raw)

C10_Witness ==
    /\ call.op = "get_accident_count_by_accident_type"
    /\ Len(call.raw) = 3
    /\ call.raw[1] = [accident_type |-> <<"c", "o", "a">>, count |-> 5]
    /\ call.raw[2] = [accident_type |-> <<"r", "e">>, count |-> 2]
    /\ call.raw[3] = [accident_type |-> <<"x", "c", "o">>, count |-> 1]
    /\ call.ret = << [accident_type |-> COLLISION, count |-> 6],
                     [accident_type |-> <<"r", "e">>, count |-> 2] >>

\* the sum of the counts of a sequence of {age_group, count} records
RECURSIVE SumAgeCounts(_)
SumAgeCounts(records) ==
    IF records = <<>> THEN 0 ELSE Head(records).count + SumAgeCounts(Tail(records))

OutputAgeGroups ==
    { <<"0", "0", "-", "1", "4">>, <<"1", "5", "-", "2", "4">>, <<"2", "5", "-", "6", "4">>,
      SIXTY_FIVE_PLUS, UNKNOWN }

(***************************************************************************)
(* C11: filter_and_group_injured_count_per_age_group adds every input      *)
(* record's count to exactly one of the output buckets 00-14, 15-24,       *)
(* 25-64, 65+, unknown, so the output counts sum to the input counts.  The *)
(* loop over range_dict has no else branch: a range that lies in no single *)
(* bucket, such as 10-19, is added to no bucket.                           *)
(***************************************************************************)
C11_AgeBucketsConserveCount ==
    call.op = "filter_and_group_injured_count_per_age_group" =>
        /\ \A i \in 1 .. Len(call.ret) : call.ret[i].age_group \in OutputAgeGroups
        /\ \A i, j \in 1 .. Len(call.ret) :
              call.ret[i].age_group = call.ret[j].age_group => i = j
        /\ SumAgeCounts(call.ret) = SumAgeCounts(call.data_of_ages)

TopSegmentsReturned ==
    call.op = "get_top_road_segments_accidents_per_km" /\ call.ret.exc = ""

(***************************************************************************)
(* C12 as stated: get_top_road_segments_accidents_per_km returns no result *)
(* when resolution is not the inter-city road resolution; otherwise it     *)
(* returns at most limit records, strictly descending by accidents per km. *)
(***************************************************************************)
C12_StrictlyDescending ==
    TopSegmentsReturned =>
        LET recs == call.ret.val.elems
        IN  /\ call.resolution # PyStr("interurban_road") => call.ret.val = EmptyDict
            /\ Len(recs) <= call.limit
            /\ \A i, j \in 1 .. Len(recs) :
                  i < j => recs[i].accidents_per_km > recs[j].accidents_per_km

(***************************************************************************)
(* C12 amended: the call returns no result when resolution is not the      *)
(* inter-city road resolution; otherwise it returns at most limit records  *)
(* in non-increasing order of accidents per km (segments of equal ratio    *)
(* may follow one another), and no segment left out has a higher ratio     *)
(* than a segment returned.                                                *)
(***************************************************************************)
C12_NonIncreasingWithinLimit ==
    TopSegmentsReturned =>
        LET recs == call.ret.val.elems
            all == get_query(call.table, None, call.window[1], call.window[2])
            joined == JoinedRows(all, DictGet(call.location_info, "road1"))
        IN  /\ call.resolution # PyStr("interurban_road") => call.ret.val = EmptyDict
            /\ Len(recs) <= call.limit
            /\ \A i, j \in 1 .. Len(recs) :
                  i < j => recs[i].accidents_per_km >= recs[j].accidents_per_km
            /\ call.resolution = PyStr("interurban_road") =>
                  /\ call.ret.val.kind = "list"
                  /\ Len(recs) = Limited(Cardinality(GroupKeys(joined)), call.limit)
                  /\ \A key \in GroupKeys(joined) :
                        \/ \E i \in 1 .. Len(recs) : recs[i] = GroupRecord(joined, key)
                        \/ \A i \in 1 .. Len(recs) :
                              recs[i].accidents_per_km >= GroupRecord(joined, key).accidents_per_km

C12_Witness ==
    /\ TopSegmentsReturned
    /\ call.resolution = PyStr("interurban_road")
    /\ call.limit = 2
    /\ Cardinality(GroupKeys(JoinedRows(call.table, "90"))) = 3
    /\ Len(call.ret.val.elems) = 2
    /\ call.ret.val.elems[1].accidents_per_km = call.ret.val.elems[2].accidents_per_km
    /\ call.ret.val.elems[1].road_segment_name = "seg_b"

NationalCacheCalled ==
    call.op = "percentage_accidents_by_car_type_national_data_cache"

(***************************************************************************)
(* C13 as stated: in any sequence of calls of                              *)
(* percentage_accidents_by_car_type_national_data_cache, a call with the   *)
(* (start_time, end_time) of an earlier call returns the earlier result    *)
(* and performs no recomputation.                                          *)
(***************************************************************************)
C13_NeverRecomputed ==
    (NationalCacheCalled /\ call.earlier # None) =>
        /\ call.ret = call.earlier[1].ret
        /\ ~call.computed

(***************************************************************************)
(* C13 amended: a call with the (start_time, end_time) of an earlier call  *)
(* returns the earlier result and performs no recomputation when fewer     *)
(* than 64 other distinct keys were asked since that earlier call; the     *)
(* cache holds at most 64 entries.                                         *)
(***************************************************************************)
C13_CachedUntilEvicted ==
    /\ Len(lru) <= LRU_MAXSIZE
    /\ (NationalCacheCalled /\ call.earlier # None
           /\ Cardinality(call.earlier[1].since) < LRU_MAXSIZE) =>
          /\ call.ret = call.earlier[1].ret
          /\ ~call.computed

C13_Witness ==
    /\ NationalCacheCalled
    /\ call.earlier # None
    /\ Cardinality(call.earlier[1].since) = LRU_MAXSIZE - 1
    /\ ~call.computed
    /\ call.ret = call.earlier[1].ret
    /\ Len(lru) = LRU_MAXSIZE

(***************************************************************************)
(* C14: the context is immutable once built: no statistic function called  *)
(* with the context's location filters changes its location_info or any    *)
(* other field.  The three functions assign filters["provider_code"] on    *)
(* the dict they are given, which is the context's location_info.          *)
(***************************************************************************)
C14_ContextUnchangedByStatistics ==
    call.op = "statistic" => call.after = call.request_params

CBS_PROVIDER_CODES == {CBS_ACCIDENT_TYPE_1_CODE, CBS_ACCIDENT_TYPE_3_CODE}

(***************************************************************************)
(* C15: no statistic function, get_top_road_segments_accidents_per_km      *)
(* included, counts a row whose provider_code is outside the two CBS       *)
(* codes.  get_top_road_segments_accidents_per_km builds its query with    *)
(* filters=None, so it counts the rows of every provider.                  *)
(***************************************************************************)
C15_OnlyCbsProvidersCounted ==
    (call.op = "get_top_road_segments_accidents_per_km" \/ call.op = "statistic") =>
        \A row \in call.ret.counted : row.provider_code \in CBS_PROVIDER_CODES

(***************************************************************************)
(* C16: the widget list an entry point returns is flat: every element is   *)
(* one serialized {name, data, meta} record, never a list of records.      *)
(* get_infographics_data appends the list generate_widgets returns as one  *)
(* element (line 1112), as create_infographics_data does (line 737).       *)
(***************************************************************************)
C16_WidgetListIsFlat ==
    ( /\ call.op = "get_infographics_data"
      /\ call.ret.exc = ""
      /\ call.ret.val.kind = "list" ) =>
        \A i \in 1 .. Len(call.ret.val.elems) : call.ret.val.elems[i].kind = "widget"

(***************************************************************************)
(* C17: get_casualties_count_in_accident returns the number of             *)
(* involved-party rows whose accident_id, provider_code, accident_year and *)
(* injury_severity all equal the arguments, 0 when there is none.          *)
(* get_accidents_stats overwrites the provider_code of the filters with    *)
(* the two CBS codes, so the rows of the other CBS provider with the same  *)
(* accident id and year are counted too.                                   *)
(***************************************************************************)
C17_CasualtiesOfOneProvider ==
    call.op = "get_casualties_count_in_accident" =>
        call.ret.res = Cardinality({ row \in call.table :
                                       /\ row.accident_id = call.accident_id
                                       /\ row.provider_code = call.provider_code
                                       /\ row.accident_year = call.accident_year
                                       /\ row.injury_severity = call.injury_severity })

\* the vehicle types that count under each key of driver_type_hebrew_dict
TypesOfDriver(key) ==
    CASE key = "professional_driver" -> PROFESSIONAL_DRIVER_VEHICLE_TYPES
      [] key = "private_vehicle_driver" ->
            PRIVATE_DRIVER_VEHICLE_TYPES \ PROFESSIONAL_DRIVER_VEHICLE_TYPES
      [] key = "other_driver" ->
            (LIGHT_ELECTRIC_VEHICLE_TYPES \cup OTHER_VEHICLES_TYPES)
                \ (PROFESSIONAL_DRIVER_VEHICLE_TYPES \cup PRIVATE_DRIVER_VEHICLE_TYPES)

\* the sum of the counts of the input records that count under driver type key
RECURSIVE MatchedCount(_, _)
MatchedCount(data, key) ==
    IF data = <<>> THEN 0
    ELSE (IF Head(data).involve_vehicle_type \in TypesOfDriver(key)
          THEN Head(data).count ELSE 0)
         + MatchedCount(Tail(data), key)

DriverTypeKeys == {"professional_driver", "private_vehicle_driver", "other_driver"}

InNoMembershipSet(vehicle_type) ==
    vehicle_type \notin (PROFESSIONAL_DRIVER_VEHICLE_TYPES \cup PRIVATE_DRIVER_VEHICLE_TYPES
                         \cup LIGHT_ELECTRIC_VEHICLE_TYPES \cup OTHER_VEHICLES_TYPES)

RECURSIVE CountOfMatched(_)
CountOfMatched(data) ==
    IF data = <<>> THEN 0
    ELSE (IF InNoMembershipSet(Head(data).involve_vehicle_type) THEN 0 ELSE Head(data).count)
         + CountOfMatched(Tail(data))

(***************************************************************************)
(* C18: count_accidents_by_driver_type adds each record's count to at most *)
(* one of the buckets professional driver, private driver, other; a        *)
(* vehicle type of no membership set is added to no bucket, so the output  *)
(* counts sum to the counts of the matched records.                        *)
(***************************************************************************)
C18_UnmatchedTypesDropped ==
    call.op = "count_accidents_by_driver_type" =>
        LET out == call.ret
        IN  /\ \A i \in 1 .. Len(out) :
                  \E key \in DriverTypeKeys :
                      /\ out[i].driver_type = driver_type_hebrew_dict[key]
                      /\ out[i].count = MatchedCount(call.data, key)
            /\ \A i, j \in 1 .. Len(out) : out[i].driver_type = out[j].driver_type => i = j
            /\ \A key \in DriverTypeKeys :
                  (\E k \in 1 .. Len(call.data) :
                      call.data[k].involve_vehicle_type \in TypesOfDriver(key))
                  <=> \E i \in 1 .. Len(out) : out[i].driver_type = driver_type_hebrew_dict[key]
            /\ SumOfCounts(out) = CountOfMatched(call.data)

C18_Witness ==
    /\ call.op = "count_accidents_by_driver_type"
    /\ Len(call.data) = 3
    /\ InNoMembershipSet(call.data[2].involve_vehicle_type)
    /\ call.data[1].involve_vehicle_type \in OTHER_VEHICLES_TYPES
    /\ call.data[3].involve_vehicle_type \in PRIVATE_DRIVER_VEHICLE_TYPES
    /\ Len(call.ret) = 2
    /\ SumOfCounts(call.ret) = call.data[1].count + call.data[3].count
    /\ SumOfCounts(call.ret) < SumOfCounts(call.data)

CarTypes == {"private_car", "commercial_truck", "motorcycle", "bicycle_scooter", "other"}

RECURSIVE SumOfEntries(_)
SumOfEntries(d) == IF d = <<>> THEN 0 ELSE Head(d)[2] + SumOfEntries(Tail(d))

(***************************************************************************)
(* C19: in the output of stats_accidents_by_car_type_with_national_data    *)
(* every vehicle bucket with a non-zero share in the local data or in the  *)
(* national data appears exactly once, with its local and its national     *)
(* percentage; percentage_accidents_by_car_type counts every input record  *)
(* in exactly one of the five buckets, so the bucket counts sum to the     *)
(* total.  The output is built from the keys of the national data alone:   *)
(* a bucket that only the local data have is left out.                     *)
(***************************************************************************)
C19_EveryBucketPaired ==
    (call.op = "stats_accidents_by_car_type_with_national_data" /\ call.ret.exc = "") =>
        LET out == call.ret.out
            local == call.ret.data_by_segment
            national == call.ret.national_data
        IN  /\ \A bucket \in CarTypes :
                  (HasEntry(local.val, bucket) \/ HasEntry(national.val, bucket)) =>
                      /\ Cardinality({i \in 1 .. Len(out) : out[i].car_type = bucket}) = 1
                      /\ \A i \in 1 .. Len(out) :
                            out[i].car_type = bucket =>
                                /\ out[i].percentage_segment = FloatOf(local.val, bucket)
                                /\ out[i].percentage_country = FloatOf(national.val, bucket)
            /\ \A i \in 1 .. Len(local.counts) : local.counts[i][1] \in CarTypes
            /\ SumOfEntries(local.counts) = SumOfCounts(call.data)

(***************************************************************************)
(* C20: the resolution of the context equals the resolution string of the  *)
(* event, so for an event of the inter-city road resolution                *)
(* get_top_road_segments_accidents_per_km is called with that string and   *)
(* returns the list of the query, not the empty dict.  RequestParams       *)
(* stores the 1-tuple (resolution,), which equals no string.               *)
(***************************************************************************)
C20_ContextResolutionIsEventResolution ==
    call.op = "top_road_segments_of_context" =>
        LET event == QueryNewsFlash(call.news_flash_id)[1]
        IN  /\ call.request_params.resolution = PyStr(event.resolution)
            /\ event.resolution = "interurban_road" =>
                  (call.ret.exc = "" /\ call.ret.val.kind = "list")

(***************************************************************************)
(* C21: for an accepted yearsAgo n in [0, 100] for which get_request_params *)
(* returns a context, the window is non-empty (start_time <= end_time)     *)
(* exactly when n >= 1; for n = 0 a context is still returned whenever one *)
(* is returned for n = 1, and its start_time is January 1 of the year      *)
(* after end_time's year, strictly after end_time.                         *)
(***************************************************************************)
WindowNonEmpty(rp) == ~Before(rp.end_time, rp.start_time)

C21_WindowNonEmptyIffYearsAgoPositive ==
    ( /\ call.op = "get_request_params"
      /\ AcceptedYearsAgo(call.years_ago)
      /\ call.ret.exc = "" ) =>
        LET n == PyInt(call.years_ago).n
            rp == call.ret.val[1]
        IN  /\ call.ret.val # None =>
                /\ WindowNonEmpty(rp) <=> n >= 1
                /\ n = 0 => /\ rp.start_time = <<rp.end_time[1] + 1, 1, 1>>
                            /\ Before(rp.end_time, rp.start_time)
            /\ (n = 0 /\ call.ret.val = None) =>
                get_request_params(call.news_flash_id, IntVal(1), markers).val = None

C21_Witness ==
    /\ call.op = "get_request_params"
    /\ AcceptedYearsAgo(call.years_ago)
    /\ PyInt(call.years_ago).n = 0
    /\ call.ret.exc = ""
    /\ call.ret.val # None
    /\ Before(call.ret.val[1].end_time, call.ret.val[1].start_time)

(***************************************************************************)
(* C22: when the cache returns a list and get_request_params returns None, *)
(* get_infographics_data raises nothing and returns the cached list with   *)
(* exactly one more element at its end; no generator of get_widgets_def is *)
(* invoked (every descriptor is cache-eligible and to_cache is False) and  *)
(* the appended element is an empty list.                                  *)
(***************************************************************************)
CacheListAndNullParams ==
    /\ call.op = "get_infographics_data"
    /\ call.cache.exc = ""
    /\ call.cache.val # None
    /\ call.ret.rp.exc = ""
    /\ call.ret.rp.val = None

C22_NullParamsAppendEmptyList ==
    CacheListAndNullParams =>
        LET cached == call.cache.list
            out == call.ret.val
        IN  /\ call.ret.exc = ""
            /\ out.kind = "list"
            /\ Len(out.elems) = Len(cached) + 1
            /\ SubSeq(out.elems, 1, Len(cached)) = cached
            /\ out.elems[Len(cached) + 1].kind = "list"
            /\ out.elems[Len(cached) + 1].elems = <<>>
            /\ call.ret.widgets.calls = <<>>

C22_Witness ==
    /\ CacheListAndNullParams
    /\ call.cache.list = <<CachedWidget>>
    /\ Len(call.ret.val.elems) = 2
    /\ call.ret.val.elems[2].elems = <<>>

(***************************************************************************)
(* C23: a generator of the registry returns a Widget whose serialized name *)
(* and meta.rank are the name and rank of its descriptor's WidgetId, and   *)
(* the ranks of the WidgetId members are pairwise distinct.  The generators *)
(* build the widget with Widget(widget_id=..., items=...), keywords the    *)
(* dataclass constructor does not take, so the call raises TypeError and   *)
(* no widget carrying the WidgetId's name and rank is produced.            *)
(***************************************************************************)
RanksPairwiseDistinct ==
    \A a \in DOMAIN WidgetId : \A b \in DOMAIN WidgetId :
        a # b => WidgetId_get_rank(a) # WidgetId_get_rank(b)

====
